---- MODULE Spec2Model ----
(***************************************************************************)
(* Client-side submit pipeline of the SQL validator page                   *)
(* (src/static/main.js, the handler registered at lines 120-327):          *)
(* duplicate-submission guard by fingerprint, the awaited /validate        *)
(* request, the static render, the download button, and the detached       *)
(* /analyze_ai continuation that patches the rendered cards.               *)
(*                                                                         *)
(* Text is a sequence of tokens (one-character strings, or atomic chunks   *)
(* of text).  The token "<b>" stands for any substring that the HTML       *)
(* parser reads as a start tag (as in the SQL text  a<b AND c>d ).         *)
(*                                                                         *)
(* One action is one event-loop task together with the microtasks it       *)
(* schedules: the browser runs them to completion before the next task.    *)
(*                                                                         *)
(* Lines 1-118 of the file hold an earlier version of the same script      *)
(* (no AI phase); the version modelled is the later one.  The page's       *)
(* markup is not part of the sources: Init takes the warning, the button   *)
(* and the output to start hidden and empty.                               *)
(***************************************************************************)
EXTENDS Integers, Sequences, FiniteSets, TLC

\* Number of accepted (not blocked) submissions in one behaviour.
MaxSubmits == 2

----------------------------------------------------------------------------
(* Text helpers *)

RECURSIVE Join(_, _)
\* Array.prototype.join: the elements separated by sep.
Join(parts, sep) ==
    IF Len(parts) = 0 THEN <<>>
    ELSE IF Len(parts) = 1 THEN parts[1]
    ELSE parts[1] \o sep \o Join(Tail(parts), sep)

Digit(d) ==
    CASE d = 0 -> "0" [] d = 1 -> "1" [] d = 2 -> "2" [] d = 3 -> "3"
      [] d = 4 -> "4" [] d = 5 -> "5" [] d = 6 -> "6" [] d = 7 -> "7"
      [] d = 8 -> "8" [] d = 9 -> "9"

RECURSIVE NumToStr(_)
\* String(n) for a non-negative integer: its decimal digits.
NumToStr(n) ==
    IF n < 10 THEN <<Digit(n)>>
    ELSE NumToStr(n \div 10) \o <<Digit(n % 10)>>

\* String.prototype.startsWith
StartsWith(v, prefix) ==
    /\ Len(v) >= Len(prefix)
    /\ SubSeq(v, 1, Len(prefix)) = prefix

\* Tokens the HTML parser consumes as markup when text is interpolated
\* into a string assigned to innerHTML.
TagTokens == {"<b>"}

\* The text an element shows after  `...${t}...`  was assigned to innerHTML:
\* the interpolation is not escaped, so markup inside t is parsed, not shown.
HtmlText(t) == SelectSeq(t, LAMBDA c : c \notin TagTokens)

----------------------------------------------------------------------------
(* Form state and fingerprint *)

NoFile == [present |-> FALSE, name |-> <<>>, size |-> 0, lastModified |-> 0]

MkFile(n, s, m) == [present |-> TRUE, name |-> n, size |-> s, lastModified |-> m]

MkForm(n, e, t, c, f) ==
    [name |-> n, email |-> e, team |-> t, cr_number |-> c, file |-> f]

\* The seven components the handler reads, in the order of the array literal.
Components(f) ==
    << f.name, f.email, f.team, f.cr_number,
       IF f.file.present THEN f.file.name ELSE <<>>,
       IF f.file.present THEN NumToStr(f.file.size) ELSE <<>>,
       IF f.file.present THEN NumToStr(f.file.lastModified) ELSE <<>> >>

\* A plausible bug: the file's last-modified time left out of the fingerprint.
currentFingerprintNoMtime(f) == Join(SubSeq(Components(f), 1, 6), <<"|">>)

currentFingerprint(f) == Join(Components(f), <<"|">>)

\* lastFingerprint's initial value.  No fingerprint equals it: a fingerprint
\* is a string (it holds six separators), and  string === null  is false.
Null == <<"null">>

EmptyForm == MkForm(<<>>, <<>>, <<>>, <<>>, NoFile)

FormA == MkForm(<<"A">>, <<"a@x.com">>, <<"T">>, <<"C","R","1">>,
                MkFile(<<"q.sql">>, 10, 1000))

\* FormA with another file state: same name and size, saved again later.
FormB == MkForm(<<"A">>, <<"a@x.com">>, <<"T">>, <<"C","R","1">>,
                MkFile(<<"q.sql">>, 10, 1001))

\* The form states the user moves between.
Forms == {EmptyForm, FormA, FormB}

----------------------------------------------------------------------------
(* Validation messages and their classification *)

\* The sentinel glyphs, as tokens: the failure glyph (U+274C), the warning
\* glyph (U+26A0 followed by the variation selector U+FE0F), the AI glyph
\* (U+1F9E0).
FailGlyph == <<"[cross]">>
WarnGlyph == <<"[warn]", "[vs16]">>
AiGlyph   == <<"[brain]">>

\* Whether glyph occurs anywhere in v (String.prototype.includes).
Includes(v, glyph) ==
    \E i \in 1..Len(v) : StartsWith(SubSeq(v, i, Len(v)), glyph)

\* A plausible bug: the glyph looked for anywhere in the message.
ClassifyAnywhere(v) ==
    IF Includes(v, FailGlyph) THEN "error"
    ELSE IF Includes(v, WarnGlyph) THEN "warning"
    ELSE IF Includes(v, AiGlyph) THEN "ai-msg"
    ELSE "success"

\* The class the static render gives a validation message.
Classify(v) ==
    IF StartsWith(v, FailGlyph) THEN "error"
    ELSE IF StartsWith(v, WarnGlyph) THEN "warning"
    ELSE IF StartsWith(v, AiGlyph) THEN "ai-msg"
    ELSE "success"

----------------------------------------------------------------------------
(* Responses of the two endpoints *)

\* What a fetch can settle with.  kind "raise": fetch rejects or the body is
\* not JSON.  kind "decoded": a JSON object; error is its top-level error
\* (empty when absent), hasBody whether summary and results are present.
MkResp(k, e, hb, sm, rs, pdf) ==
    [kind |-> k, error |-> e, hasBody |-> hb, summary |-> sm,
     results |-> rs, pdf_url |-> pdf]

NoSummary == [total |-> 0, passed |-> 0, failed |-> 0,
              ai_summary |-> <<>>, ai_insights |-> <<>>]

Raised == MkResp("raise", <<>>, FALSE, NoSummary, <<>>, <<>>)

ErrorResp(e) == MkResp("decoded", e, FALSE, NoSummary, <<>>, <<>>)

\* A JSON object with neither an error nor a summary (such as {}).
Malformed == MkResp("decoded", <<>>, FALSE, NoSummary, <<>>, <<>>)

\* No response yet.
Pending == MkResp("pending", <<>>, FALSE, NoSummary, <<>>, <<>>)

MkSummary(t, p, f, s, ins) ==
    [total |-> t, passed |-> p, failed |-> f, ai_summary |-> s,
     ai_insights |-> ins]

MkResult(q, vs) == [query |-> q, validations |-> vs]

\* One failing query, with a report to download.
Static1 ==
    MkResp("decoded", <<>>, TRUE, MkSummary(1, 0, 1, <<>>, <<>>),
           << MkResult(<<"SELECT 1">>, << <<"[cross]", "syntax error">> >>) >>,
           <<"/r/1.pdf">>)

\* Two queries, no report; the first query holds a '<' that starts a tag,
\* and the second result already carries an AI-tagged message, a failure
\* message with a warning glyph further on, and messages whose glyph is
\* not at the start.
Static2 ==
    MkResp("decoded", <<>>, TRUE, MkSummary(2, 2, 0, <<>>, <<>>),
           << MkResult(<<"WHERE a", "<b>", "d">>,
                       << <<"[check]", "ok">>, <<"[warn]", "[vs16]", "slow">> >>),
              MkResult(<<"SELECT 2">>,
                       << <<"[brain]", "hint">>,
                          <<"[cross]", "bad", "[warn]", "[vs16]", "[brain]">>,
                          <<"slow", "[warn]", "[vs16]">>,
                          <<"see", "[cross]">> >>) >>,
           <<>>)

StaticResponses ==
    {Raised, ErrorResp(<<"empty file">>), Malformed, Static1, Static2}

\* One result: the static message again, then one AI message.
Ai1 ==
    MkResp("decoded", <<>>, TRUE,
           MkSummary(1, 0, 1, <<"risky">>,
                     << [type |-> <<"perf">>, message |-> <<"full scan">>,
                         severity |-> <<"high">>] >>),
           << MkResult(<<"SELECT 1">>,
                       << <<"[cross]", "syntax error">>,
                          <<"[brain]", "add index">> >>) >>,
           <<>>)

\* Two results: two AI messages for the first (one of them with markup),
\* for the second the AI message the static response already carried.
Ai2 ==
    MkResp("decoded", <<>>, TRUE, MkSummary(2, 2, 0, <<>>, <<>>),
           << MkResult(<<"WHERE a", "<b>", "d">>,
                       << <<"[brain]", "x", "<b>">>, <<"[check]", "ok">>,
                          <<"[brain]", "y">> >>),
              MkResult(<<"SELECT 2">>, << <<"[brain]", "hint">> >>) >>,
           <<>>)

AiResponses == {Raised, ErrorResp(<<"model timeout">>), Malformed, Ai1, Ai2}

----------------------------------------------------------------------------
(* The page *)

VARIABLES
    form,            \* the live values of the form's inputs
    lastFingerprint, \* the script's global
    warning,         \* #duplicateWarning: style.display and innerText
    button,          \* #topDownloadBtn: style.display and the URL onclick opens
    resultsDisplay,  \* #results: style.display
    output,          \* #validationOutput: what its innerHTML was parsed into
    subs,            \* the handler invocations with a fetch in flight
    nSubmits,        \* how many submits were accepted so far
    event,           \* history: what the last task was and what it was given
    probeForms,      \* two form states handed to currentFingerprint alone
    probePrints      \* their fingerprints, once computed

vars == <<form, lastFingerprint, warning, button, resultsDisplay, output,
          subs, nSubmits, event, probeForms, probePrints>>

DuplicateText == "You have already validated this file with these specific details."

GenericError == <<"[cross]", "An error occurred.">>

NoLoading == [display |-> "none", kind |-> "absent", text |-> <<>>]

\* #ai-loading-container as the static render creates it.
Thinking == [display |-> "block", kind |-> "thinking", text |-> <<>>]

NoAiSummary == [summary |-> <<>>, insights |-> <<>>]

\* #validationOutput holding no element of the static render.  owner and
\* pdf are history: which submission wrote the content, and the pdf_url of
\* the response it was rendered from.
Plain(k, t, id) ==
    [kind |-> k, text |-> t, loading |-> NoLoading, aiSummary |-> NoAiSummary,
     summary |-> <<>>, cards |-> <<>>, owner |-> id, pdf |-> <<>>]

Disarmed == [display |-> "none", onclick |-> <<>>]

\* The static render: the string built at lines 192-234 and parsed by the
\* innerHTML assignment.  Card k (1-based here) has data-index k - 1.
RenderCard(item, index) ==
    [index |-> index,
     query |-> HtmlText(item.query),
     items |-> [j \in 1..Len(item.validations) |->
                  [cls  |-> Classify(item.validations[j]),
                   text |-> HtmlText(item.validations[j])]]]

RenderStatic(data, id) ==
    [kind |-> "static", text |-> <<>>,
     loading |-> Thinking,
     aiSummary |-> NoAiSummary,
     summary |-> << NumToStr(data.summary.total), NumToStr(data.summary.passed),
                    NumToStr(data.summary.failed) >>,
     cards |-> [k \in 1..Len(data.results) |-> RenderCard(data.results[k], k - 1)],
     owner |-> id, pdf |-> data.pdf_url]

\* A plausible bug: the button shown without the test for pdf_url.
ArmAlways(data, btn) == [display |-> "inline-block", onclick |-> data.pdf_url]

\* Lines 239-242.
ArmIfPdf(data, btn) ==
    IF data.pdf_url # <<>>
    THEN [display |-> "inline-block", onclick |-> data.pdf_url]
    ELSE btn

\* A plausible bug: every submit after the first success counts as a repeat.
IsDuplicateOnceValidated(fp, last) == last # Null

\* The guard of line 153.
IsDuplicate(fp, last) == fp = last

Event(op, id, data, threw) ==
    [op |-> op, id |-> id, data |-> data, threw |-> threw]

Init ==
    /\ form = EmptyForm
    /\ lastFingerprint = Null
    /\ warning = [display |-> "none", text |-> ""]
    /\ button = Disarmed
    /\ resultsDisplay = "none"
    /\ output = Plain("empty", <<>>, 0)
    /\ subs = <<>>
    /\ nSubmits = 0
    /\ event = Event("load", 0, Pending, FALSE)
    /\ probeForms = <<EmptyForm, EmptyForm>>
    /\ probePrints = <<>>

\* The user edits a field or picks a file: the input and change listeners.
ChangeInput(f) ==
    /\ f # form
    /\ form' = f
    /\ warning' = [warning EXCEPT !.display = "none"]
    /\ event' = Event("change", 0, Pending, FALSE)
    /\ UNCHANGED <<lastFingerprint, button, resultsDisplay, output, subs,
                   nSubmits, probeForms, probePrints>>

\* The submit handler up to its first await (lines 130-180).
Submit ==
    LET fp == currentFingerprint(form) IN
    IF IsDuplicate(fp, lastFingerprint)
    THEN /\ warning' = [display |-> "block", text |-> DuplicateText]
         /\ event' = Event("blocked", 0, Pending, FALSE)
         /\ UNCHANGED <<form, lastFingerprint, button, resultsDisplay, output,
                        subs, nSubmits, probeForms, probePrints>>
    ELSE /\ nSubmits < MaxSubmits
         /\ nSubmits' = nSubmits + 1
         /\ warning' = [display |-> "none", text |-> ""]
         /\ button' = Disarmed
         /\ resultsDisplay' = "block"
         /\ output' = Plain("validating", <<>>, nSubmits')
         /\ subs' = Append(subs, [id |-> nSubmits', fp |-> fp, formData |-> form,
                                  before |-> lastFingerprint, pc |-> "validate"])
         /\ event' = Event("submit", nSubmits', Pending, FALSE)
         /\ UNCHANGED <<form, lastFingerprint, probeForms, probePrints>>

\* A decoded response without a top-level error (the test of lines 184, 252).
Decoded(data) == data.kind = "decoded" /\ data.error = <<>>

\* lastFingerprint after the /validate response was handled (lines 184-189).
CommitFingerprint(data, fp, last) == IF Decoded(data) THEN fp ELSE last

\* #validationOutput after the /validate response was handled: the error of
\* line 185, the render of line 236, or the catch of line 325 (reached when
\* fetch or json() raises, and when data.summary is read from a body that
\* has none).
OutputAfterValidate(data, id) ==
    IF data.kind = "decoded" /\ data.error # <<>>
    THEN Plain("error", HtmlText(data.error), id)
    ELSE IF Decoded(data) /\ data.hasBody THEN RenderStatic(data, id)
    ELSE Plain("error", GenericError, id)

\* A plausible bug: the AI request issued whatever the static response was.
ReachesAiAlways(data) == TRUE

\* Whether the handler reaches the fetch of line 246.
ReachesAi(data) == Decoded(data) /\ data.hasBody

\* The button after the /validate response was handled (lines 238-242).
ButtonAfterValidate(data, btn) ==
    IF ReachesAi(data) THEN ArmIfPdf(data, btn) ELSE btn

\* subs without its i-th element: a handler that returned.
Without(s, i) == SubSeq(s, 1, i - 1) \o SubSeq(s, i + 1, Len(s))

\* The awaited /validate fetch of in-flight submission i settles with data:
\* the rest of the handler (lines 182-249, 324-326).
ValidateSettles(i, data) ==
    /\ subs[i].pc = "validate"
    /\ lastFingerprint' = CommitFingerprint(data, subs[i].fp, lastFingerprint)
    /\ output' = OutputAfterValidate(data, subs[i].id)
    /\ button' = ButtonAfterValidate(data, button)
    /\ subs' = IF ReachesAi(data) THEN [subs EXCEPT ![i].pc = "ai"]
               ELSE Without(subs, i)
    /\ event' = Event("validate", subs[i].id, data, FALSE)
    /\ UNCHANGED <<form, warning, resultsDisplay, nSubmits, probeForms,
                   probePrints>>

\* The AI-tagged messages of one AI result, as the list items lines 305-310
\* build: innerText shows the message verbatim.
AiItems(item) ==
    LET msgs == SelectSeq(item.validations, LAMBDA v : StartsWith(v, AiGlyph))
    IN  [j \in 1..Len(msgs) |-> [cls |-> "ai-msg", text |-> msgs[j]]]

\* A plausible bug: the AI items inserted before the card's items.
PatchCardsPrepend(cards, results) ==
    [k \in 1..Len(cards) |->
        IF k <= Len(results)
        THEN [cards[k] EXCEPT !.items = AiItems(results[k]) \o @]
        ELSE cards[k]]

\* A plausible bug: the patch given up when the AI response and the page
\* disagree on the number of queries.
PatchCardsIfSameLength(cards, results) ==
    IF Len(cards) # Len(results) THEN cards
    ELSE [k \in 1..Len(cards) |->
            [cards[k] EXCEPT !.items = @ \o AiItems(results[k])]]

\* Lines 293-316: result k of the AI response is appended to the k-th
\* element of class result-card, when there is one.
PatchCards(cards, results) ==
    [k \in 1..Len(cards) |->
        IF k <= Len(results)
        THEN [cards[k] EXCEPT !.items = @ \o AiItems(results[k])]
        ELSE cards[k]]

\* Lines 262-290: what #ai-summary-container is filled with.
RenderAiSummary(sm) ==
    [summary |-> HtmlText(sm.ai_summary),
     insights |-> [j \in 1..Len(sm.ai_insights) |->
                     [severity |-> sm.ai_insights[j].severity,
                      type |-> HtmlText(sm.ai_insights[j].type),
                      message |-> HtmlText(sm.ai_insights[j].message)]]]

\* Whether document.getElementById finds the elements of the static render.
HasStaticRender(out) == out.kind = "static"

\* A plausible bug: the catch only logs and leaves the container as it is.
LoadingUntouched(l) == l

\* #ai-loading-container after the catch of lines 319-322.
LoadingAfterRaise(l) == [l EXCEPT !.kind = "empty", !.text = <<>>]

\* A plausible bug: the error added to the container instead of replacing
\* its content.
LoadingAfterAiErrorAppended(l, e) == [l EXCEPT !.text = @ \o HtmlText(e)]

\* #ai-loading-container after the branch of lines 252-256.
LoadingAfterAiError(l, e) == [l EXCEPT !.kind = "error", !.text = HtmlText(e)]

\* A plausible bug: an AI failure written over #validationOutput, as the
\* static phase writes its errors, instead of into the loading container.
OutputAfterAiOverwriting(aiData, out) ==
    IF aiData.kind = "raise" THEN Plain("error", GenericError, out.owner)
    ELSE IF aiData.error # <<>>
    THEN Plain("error", HtmlText(aiData.error), out.owner)
    ELSE [out EXCEPT !.loading = [@ EXCEPT !.display = "none"],
                     !.aiSummary = RenderAiSummary(aiData.summary),
                     !.cards = PatchCards(@, aiData.results)]

\* #validationOutput after the /analyze_ai response was handled (lines
\* 250-322), for a document that holds the static render's elements.
OutputAfterAi(aiData, out) ==
    IF aiData.kind = "raise"
    THEN [out EXCEPT !.loading = LoadingAfterRaise(@)]
    ELSE IF aiData.error # <<>>
    THEN [out EXCEPT !.loading = LoadingAfterAiError(@, aiData.error)]
    ELSE IF ~aiData.hasBody
    \* line 259 hides the container, line 266 throws, the catch empties it
    THEN [out EXCEPT !.loading = LoadingAfterRaise([@ EXCEPT !.display = "none"])]
    ELSE [out EXCEPT !.loading = [@ EXCEPT !.display = "none"],
                     !.aiSummary = RenderAiSummary(aiData.summary),
                     !.cards = PatchCards(@, aiData.results)]

\* The detached /analyze_ai fetch of in-flight submission i settles with
\* aiData.  When the document holds no #ai-loading-container, line 254 or
\* 259 or 321 throws a TypeError, the catch handler throws again at line
\* 321, and the promise chain ends rejected with no handler.
AiSettles(i, aiData) ==
    /\ subs[i].pc = "ai"
    /\ output' = IF HasStaticRender(output) THEN OutputAfterAi(aiData, output)
                 ELSE output
    /\ subs' = Without(subs, i)
    /\ event' = Event("ai", subs[i].id, aiData, ~HasStaticRender(output))
    /\ UNCHANGED <<form, lastFingerprint, warning, button, resultsDisplay,
                   nSubmits, probeForms, probePrints>>

Next ==
    \/ \E f \in Forms : ChangeInput(f)
    \/ Submit
    \/ \E i \in 1..Len(subs) : \E data \in StaticResponses : ValidateSettles(i, data)
    \/ \E i \in 1..Len(subs) : \E aiData \in AiResponses : AiSettles(i, aiData)

Spec == Init /\ [][Next]_vars

\* The request submission id is waiting for settles: the browser resolves
\* or rejects the promise of line 177 or 246 and runs its continuation.
Settles(id) ==
    \E i \in 1..Len(subs) :
        /\ subs[i].id = id
        /\ \/ \E data \in StaticResponses : ValidateSettles(i, data)
           \/ \E aiData \in AiResponses : AiSettles(i, aiData)

\* Spec under the assumption that every issued request eventually settles.
SpecFair == Spec /\ \A id \in 1..MaxSubmits : WF_vars(Settles(id))

----------------------------------------------------------------------------
(* currentFingerprint on its own: two form states, fingerprinted *)

ProbeNames == {<<>>, <<"a">>, <<"|">>, <<"a", "|">>}
ProbeEmails == {<<>>, <<"a">>, <<"|">>}
ProbeTexts == {<<>>, <<"a">>}
ProbeFiles == {NoFile, MkFile(<<"q">>, 0, 0), MkFile(<<"q">>, 1, 0),
               MkFile(<<"q">>, 10, 0)}

ProbeFormSet ==
    {MkForm(n, e, t, c, f) : n \in ProbeNames, e \in ProbeEmails,
                             t \in ProbeTexts, c \in ProbeTexts, f \in ProbeFiles}

InitProbe ==
    /\ form = EmptyForm
    /\ lastFingerprint = Null
    /\ warning = [display |-> "none", text |-> ""]
    /\ button = Disarmed
    /\ resultsDisplay = "none"
    /\ output = Plain("empty", <<>>, 0)
    /\ subs = <<>>
    /\ nSubmits = 0
    /\ event = Event("load", 0, Pending, FALSE)
    /\ probeForms \in ProbeFormSet \X ProbeFormSet
    /\ probePrints = <<>>

\* Lines 137-145 applied to each of the two form states.
Probe ==
    /\ probePrints = <<>>
    /\ probePrints' = << currentFingerprint(probeForms[1]),
                         currentFingerprint(probeForms[2]) >>
    /\ UNCHANGED <<form, lastFingerprint, warning, button, resultsDisplay,
                   output, subs, nSubmits, event, probeForms>>

NextProbe == Probe

SpecProbe == InitProbe /\ [][NextProbe]_vars

----------------------------------------------------------------------------
(* Claims *)

\* The in-flight submission with this id.
InFlight(id) == CHOOSE r \in {subs[i] : i \in 1..Len(subs)} : r.id = id

IsInFlight(id) == \E i \in 1..Len(subs) : subs[i].id = id

\* The step just taken was a task of this kind (every task records itself).
Handled(op) == event'.op = op

\* A step that issues a request to /validate, to /analyze_ai.
IssuesValidate == \E i \in 1..Len(subs') : ~IsInFlight(subs'[i].id)
IssuesAnalyze ==
    \E i \in 1..Len(subs') :
        /\ subs'[i].pc = "ai"
        /\ ~(IsInFlight(subs'[i].id) /\ InFlight(subs'[i].id).pc = "ai")

\* The fetch failed as the spec's Failed(static) and AIFailed mean it: the
\* call raised, or the decoded response has a top-level error.
Failure(data) == data.kind = "raise" \/ (data.kind = "decoded" /\ data.error # <<>>)

Armed(btn) == btn.display # "none" \/ btn.onclick # <<>>

\* C1: a submit attempt is blocked exactly when lastFingerprint is present
\* and equals the fingerprint of the current form state, so the first
\* submit is never blocked; a blocked attempt shows the duplicate warning
\* and issues neither a /validate nor an /analyze_ai request.
C1_BlockedIffDuplicate ==
    [][ (Handled("blocked") \/ Handled("submit")) =>
          LET blocked == Handled("blocked") IN
          /\ blocked <=> ( lastFingerprint # Null
                           /\ lastFingerprint = currentFingerprint(form) )
          /\ lastFingerprint = Null => ~blocked
          /\ blocked => /\ warning'.display = "block"
                        /\ warning'.text = DuplicateText
                        /\ ~IssuesValidate /\ ~IssuesAnalyze
                        /\ subs' = subs
          /\ ~blocked => IssuesValidate
      ]_vars

\* C1's case: a repeat of the validated form state was just blocked.
C1_Witness ==
    /\ event.op = "blocked"
    /\ warning.display = "block"
    /\ lastFingerprint = currentFingerprint(form)
    /\ subs = <<>>

\* C2: when the static phase of a submission fails (the call raises or the
\* response has a top-level error), lastFingerprint is left as it was and
\* a re-submit of the same inputs is not blocked.
C2_FailedSubmissionMayRetry ==
    [][ (Handled("validate") /\ Failure(event'.data)) =>
          /\ lastFingerprint' = lastFingerprint
          /\ ~IsDuplicate(InFlight(event'.id).fp, lastFingerprint')
      ]_vars

\* C3: an /analyze_ai request is issued only in the step that handled the
\* same submission's /validate response, which decoded without error, and
\* after that step committed its fingerprint and rendered its results;
\* none is issued by a blocked attempt or by a failed static phase.
C3_AnalyzeOnlyAfterStaticRender ==
    [][ /\ IssuesAnalyze =>
             /\ Handled("validate")
             /\ event'.data.kind = "decoded" /\ event'.data.error = <<>>
             /\ \A i \in 1..Len(subs') :
                   (subs'[i].pc = "ai" /\ subs'[i].id = event'.id) =>
                       /\ IsInFlight(event'.id)
                       /\ InFlight(event'.id).pc = "validate"
                       /\ lastFingerprint' = subs'[i].fp
             /\ \A i \in 1..Len(subs') :
                   (subs'[i].pc = "ai" /\ subs'[i].id # event'.id) =>
                       (IsInFlight(subs'[i].id) /\ InFlight(subs'[i].id).pc = "ai")
             /\ output'.kind = "static"
             /\ output'.owner = event'.id
             /\ output'.loading.kind = "thinking"
             /\ Len(output'.cards) = Len(event'.data.results)
        /\ Handled("blocked") => ~IssuesAnalyze
        /\ (Handled("validate") /\ output'.kind = "error") => ~IssuesAnalyze
      ]_vars

\* C3's case: a submission whose AI request is in flight, issued by the
\* step that rendered its static results.
C3_Witness ==
    /\ event.op = "validate"
    /\ \E i \in 1..Len(subs) :
          /\ subs[i].pc = "ai" /\ subs[i].id = event.id
          /\ lastFingerprint = subs[i].fp
    /\ output.kind = "static"

\* The AI-tagged messages of a result, in the response's order.
AiTagged(item) == SelectSeq(item.validations, LAMBDA v : StartsWith(v, AiGlyph))

IsPrefix(s, t) == Len(s) <= Len(t) /\ SubSeq(t, 1, Len(s)) = s

\* C4: patching is additive.  No patch removes or reorders an item of any
\* card; and with N cards and N AI results, card i afterwards holds its
\* items as they were, followed by the AI-tagged messages of result i in
\* the response's order.
C4_PatchAdditive ==
    [][ (Handled("ai") /\ ~event'.threw) =>
          /\ output'.kind = "static"
          /\ Len(output'.cards) = Len(output.cards)
          /\ \A k \in 1..Len(output.cards) :
                /\ IsPrefix(output.cards[k].items, output'.cards[k].items)
                /\ output'.cards[k].query = output.cards[k].query
                /\ output'.cards[k].index = output.cards[k].index
          /\ ( /\ Decoded(event'.data) /\ event'.data.hasBody
               /\ Len(event'.data.results) = Len(output.cards) ) =>
               \A k \in 1..Len(output.cards) :
                  LET old  == output.cards[k].items
                      new  == output'.cards[k].items
                      msgs == AiTagged(event'.data.results[k])
                  IN  /\ Len(new) = Len(old) + Len(msgs)
                      /\ \A j \in 1..Len(msgs) : new[Len(old) + j].text = msgs[j]
      ]_vars

\* C4's case: two cards were patched from two AI results, the first of
\* which brought two AI messages.
C4_Witness ==
    /\ event.op = "ai" /\ ~event.threw /\ event.data = Ai2
    /\ Len(output.cards) = 2
    /\ Len(output.cards[1].items) = 4
    /\ output.cards[1].items[3].text = <<"[brain]", "x", "<b>">>
    /\ output.cards[1].items[4].text = <<"[brain]", "y">>

\* C5: when the AI phase fails (the call raises or the response has a
\* top-level error), everything of the page but the placeholder is as it
\* was: summary, cards and their items, download button, lastFingerprint.
C5_AiFailureTouchesOnlyPlaceholder ==
    [][ (Handled("ai") /\ Failure(event'.data)) =>
          /\ output' = [output EXCEPT !.loading = output'.loading]
          /\ button' = button
          /\ lastFingerprint' = lastFingerprint
          /\ warning' = warning
      ]_vars

\* C5's case: an AI error was written into the placeholder of a page that
\* shows static results.
C5_Witness ==
    /\ event.op = "ai" /\ event.data.error # <<>> /\ ~event.threw
    /\ output.kind = "static"
    /\ output.loading.kind = "error"
    /\ Len(output.cards) > 0

C7_DownloadGate ==
    [][ /\ Handled("submit") => button' = Disarmed
        /\ (Armed(button') /\ button' # button) =>
              /\ Handled("validate")
              /\ event'.data.kind = "decoded" /\ event'.data.error = <<>>
              /\ event'.data.pdf_url # <<>>
              /\ button' = [display |-> "inline-block",
                            onclick |-> event'.data.pdf_url]
      ]_vars

\* C7's case: the button was just armed by a static response's pdf_url.
C7_Witness ==
    /\ event.op = "validate"
    /\ event.data.pdf_url # <<>>
    /\ button = [display |-> "inline-block", onclick |-> event.data.pdf_url]

\* C8: once a /validate response with a top-level error has been handled,
\* the error message is shown and the download button is disarmed.
C8_ErrorShownAndDisarmed ==
    (event.op = "validate" /\ event.data.kind = "decoded" /\ event.data.error # <<>>) =>
        /\ output.kind = "error"
        /\ output.text = HtmlText(event.data.error)
        /\ button = Disarmed

\* C10: after the static render the k-th card (from 0) carries data-index
\* k and shows the query and the validation messages of results[k], one
\* list item per message, in the response's order.
C10_RenderShowsResults ==
    (event.op = "validate" /\ ReachesAi(event.data)) =>
        /\ output.kind = "static"
        /\ Len(output.cards) = Len(event.data.results)
        /\ \A k \in 1..Len(output.cards) :
              LET card == output.cards[k]
                  res  == event.data.results[k]
              IN  /\ card.index = k - 1
                  /\ card.query = res.query
                  /\ Len(card.items) = Len(res.validations)
                  /\ \A j \in 1..Len(card.items) :
                        card.items[j].text = res.validations[j]

\* C9: the fingerprint is a function of the seven components, and two
\* fingerprints are equal if and only if the seven components are pairwise
\* equal, also for components that contain the separator.
C9_FingerprintInjective ==
    probePrints # <<>> =>
        ( probePrints[1] = probePrints[2]
          <=> Components(probeForms[1]) = Components(probeForms[2]) )

\* C11: the class of a rendered message depends on its leading glyph
\* alone, tried in the order failure, warning, AI: a message that begins
\* with the failure glyph is an error whatever follows, and a message that
\* begins with none of the three glyphs is a success.
C11_ClassByLeadingGlyph ==
    (event.op = "validate" /\ output.kind = "static") =>
        \A k \in 1..Len(output.cards) :
            \A j \in 1..Len(output.cards[k].items) :
                LET v   == event.data.results[k].validations[j]
                    cls == output.cards[k].items[j].cls
                IN  /\ v[1] = "[cross]" => cls = "error"
                    /\ (v[1] = "[warn]" /\ v[2] = "[vs16]") => cls = "warning"
                    /\ v[1] = "[brain]" => cls = "ai-msg"
                    /\ ( v[1] # "[cross]" /\ v[1] # "[brain]"
                         /\ ~(v[1] = "[warn]" /\ v[2] = "[vs16]") )
                       => cls = "success"

\* C11's case: a render holding a failure message with a warning glyph
\* further on, classified error, and a message with a warning glyph that
\* is not at its start, classified success.
C11_Witness ==
    /\ event.op = "validate" /\ output.kind = "static"
    /\ \E k \in 1..Len(output.cards) :
          \E i, j \in 1..Len(output.cards[k].items) :
              /\ event.data.results[k].validations[i]
                    = <<"[cross]", "bad", "[warn]", "[vs16]", "[brain]">>
              /\ output.cards[k].items[i].cls = "error"
              /\ event.data.results[k].validations[j] = <<"slow", "[warn]", "[vs16]">>
              /\ output.cards[k].items[j].cls = "success"

\* C12: lastFingerprint changes only in the static-success step, the one
\* that renders a submission's static results, and becomes the fingerprint
\* computed when that submission was submitted; every other step, a
\* static failure among them, leaves it as it was.
C12_FingerprintChangesOnlyOnSuccess ==
    [][ lastFingerprint' # lastFingerprint =>
          /\ Handled("validate")
          /\ output'.kind = "static"
          /\ lastFingerprint' = InFlight(event'.id).fp
      ]_vars

\* C13: a submission that ends by showing the generic static-phase error
\* has left lastFingerprint as it was, and the same inputs are not blocked
\* when submitted again.
C13_GenericErrorMutatesNothing ==
    [][ (Handled("validate") /\ output'.kind = "error" /\ output'.text = GenericError) =>
          /\ lastFingerprint' = lastFingerprint
          /\ ~IsDuplicate(InFlight(event'.id).fp, lastFingerprint')
      ]_vars

\* The AI continuation got as far as the patch applier (lines 292-316).
Patched == Handled("ai") /\ ~event'.threw /\ Decoded(event'.data) /\ event'.data.hasBody

\* The items a step appended to card k.
Appended(k) ==
    SubSeq(output'.cards[k].items, Len(output.cards[k].items) + 1,
           Len(output'.cards[k].items))

\* C14: whenever the patch applier appends the AI messages of an AI result
\* to a card, the card was rendered from the static response of the
\* submission that issued this AI request.
C14_PatchHitsOwnCards ==
    [][ Patched =>
          \A k \in 1..Len(output.cards) :
              Appended(k) # <<>> => output.owner = event'.id
      ]_vars

\* C15: the patch applier appends to card i only AI-tagged messages of AI
\* result i, and none that card i already shows.
C15_NoMessageAddedTwice ==
    [][ Patched =>
          \A k \in 1..Len(output.cards) :
              \A j \in 1..Len(Appended(k)) :
                  /\ k <= Len(event'.data.results)
                  /\ \E m \in 1..Len(event'.data.results[k].validations) :
                        /\ event'.data.results[k].validations[m] = Appended(k)[j].text
                        /\ event'.data.results[k].validations[m][1] = "[brain]"
                  /\ \A i \in 1..Len(output.cards[k].items) :
                        output.cards[k].items[i].text # Appended(k)[j].text
      ]_vars

ThinkingShown(out) == out.loading.kind = "thinking" /\ out.loading.display = "block"

\* The step just taken ended submission id in Failed(static), AIDone or
\* AIFailed: its /validate response did not lead to an AI request, or its
\* AI request settled.
Terminal(id) ==
    /\ event.id = id /\ ~IsInFlight(id)
    /\ \/ event.op = "validate" /\ ~ReachesAi(event.data)
       \/ event.op = "ai"

\* The step just taken ended a phase of a submission in an error.
ErrorOutcome ==
    \/ Handled("validate") /\ ~ReachesAi(event'.data)
    \/ Handled("ai") /\ (event'.threw \/ ~Decoded(event'.data) \/ ~event'.data.hasBody)

\* C17: provided every issued request eventually settles, every accepted
\* submission eventually ends in Failed(static), AIDone or AIFailed; the
\* step that handles its settled AI request leaves no visible "AI is
\* thinking" placeholder, and none reappears in a render it was hidden in;
\* and no error outcome of either phase makes the duplicate guard block a
\* fingerprint other than the failed submission's that it did not block
\* before.
C17_EverySubmissionEnds ==
    /\ \A id \in 1..MaxSubmits : IsInFlight(id) ~> Terminal(id)
    /\ [][ /\ Handled("ai") => ~ThinkingShown(output')
           /\ (/\ output.kind = "static" /\ output'.owner = output.owner
               /\ ThinkingShown(output')) => ThinkingShown(output)
           /\ ErrorOutcome =>
                 \A f \in Forms :
                     (/\ currentFingerprint(f) # InFlight(event'.id).fp
                      /\ IsDuplicate(currentFingerprint(f), lastFingerprint'))
                         => IsDuplicate(currentFingerprint(f), lastFingerprint)
       ]_vars

\* C17's case: a second submission, with another fingerprint than the
\* first, ended with a raised AI request after the first ended with a
\* static error; its placeholder was emptied.
C17_Witness ==
    /\ event.op = "ai" /\ event.id = 2 /\ event.data.kind = "raise" /\ ~event.threw
    /\ subs = <<>>
    /\ output.kind = "static" /\ output.owner = 2
    /\ ~ThinkingShown(output)
    /\ lastFingerprint # Null

\* C18: whenever the download button is armed, the page shows a static
\* render and the button is bound to the pdf_url of the response that
\* render came from.
C18_ArmedUrlIsRendered ==
    Armed(button) => (output.kind = "static" /\ button.onclick = output.pdf)

\* C19: every step of the AI continuation finds the elements it writes to
\* and completes without raising an unhandled error.
C19_AiContinuationCompletes ==
    event.op = "ai" => ~event.threw

\* C20: no accepted submit issues a /validate request while one for the
\* same fingerprint awaits its response, and no static response is
\* rendered for the fingerprint lastFingerprint already holds.
C20_GuardCoversInFlight ==
    [][ /\ Handled("submit") =>
              \A i \in 1..Len(subs) :
                  subs[i].pc = "validate" => subs[i].fp # currentFingerprint(form)
        /\ (Handled("validate") /\ output'.kind = "static") =>
              InFlight(event'.id).fp # lastFingerprint
      ]_vars

====
